---- MODULE Spec2Model ----
(***************************************************************************)
(* Model of src/routes/audible.py: the upload / analyse / retrieve         *)
(* workflow of the audiobooksmith application.                             *)
(*                                                                         *)
(* Text (file names, file contents, extracted metadata) is a sequence of   *)
(* one-character strings.  A generated identifier (str(uuid.uuid4())) is   *)
(* one opaque token "u<n>"; a storage name built with an f-string, such as *)
(* f"{project_id}_{filename}", is the sequence <<project_id, "_">> \o      *)
(* filename.  The two storage folders are two functions from file names to *)
(* file contents.                                                          *)
(*                                                                         *)
(* Not modelled: analysis_date and the two estimated_reading_time fields   *)
(* of a record (wall clock and floating point), the index page, and the    *)
(* HTML produced by the templates (a rendered page is represented by the   *)
(* record handed to render_template).                                      *)
(***************************************************************************)
EXTENDS Integers, Sequences, FiniteSets, TLC

\* ------------------------------------------------------------------------
\* Bounds of the model
\* ------------------------------------------------------------------------
MaxUuid == 3

MaxFragments == 3

MaxPaddedFragments == 1

\* ------------------------------------------------------------------------
\* Program constants
\* ------------------------------------------------------------------------
ScanWindow == 2000

PreviewLen == 500

ALLOWED_EXTENSIONS ==
    { <<"t","x","t">>, <<"p","d","f">>, <<"e","p","u","b">>,
      <<"m","o","b","i">>, <<"a","z","w">>, <<"a","z","w","3">> }

\* ------------------------------------------------------------------------
\* Text helpers (Python str operations)
\* ------------------------------------------------------------------------
UpperLetters ==
    <<"A","B","C","D","E","F","G","H","I","J","K","L","M",
      "N","O","P","Q","R","S","T","U","V","W","X","Y","Z">>

LowerLetters ==
    <<"a","b","c","d","e","f","g","h","i","j","k","l","m",
      "n","o","p","q","r","s","t","u","v","w","x","y","z">>

Digits == {"0","1","2","3","4","5","6","7","8","9"}

Range(s) == { s[i] : i \in DOMAIN s }

MinOf(S) == CHOOSE x \in S : \A y \in S : x <= y

MaxOf(S) == CHOOSE x \in S : \A y \in S : y <= x

Letters == Range(UpperLetters) \cup Range(LowerLetters)

\* str.lower() on one character
LowerChar(c) ==
    IF c \in Letters /\ c \notin Range(LowerLetters)
    THEN LowerLetters[CHOOSE k \in DOMAIN UpperLetters : UpperLetters[k] = c]
    ELSE c

\* str.lower()
Lower(s) == [i \in DOMAIN s |-> LowerChar(s[i])]

\* the characters str.split(), str.strip() and the regex class \s treat as
\* white space
Whitespace == {" ", "\n", "\t"}

\* str.strip()
Strip(s) ==
    LET keep == { i \in DOMAIN s : s[i] \notin Whitespace }
    IN  IF keep = {} THEN << >> ELSE SubSeq(s, MinOf(keep), MaxOf(keep))

\* s[:n]
Prefix(s, n) == SubSeq(s, 1, IF Len(s) < n THEN Len(s) ELSE n)

\* s.rsplit('.', 1)[1], for s containing a dot
AfterLastDot(s) ==
    LET dots == { i \in DOMAIN s : s[i] = "." }
    IN  SubSeq(s, MaxOf(dots) + 1, Len(s))

allowed_file_any_suffix(filename) ==
    "." \in Range(filename)

allowed_file(filename) ==
    /\ "." \in Range(filename)
    /\ Lower(AfterLastDot(filename)) \in ALLOWED_EXTENSIONS

\* ------------------------------------------------------------------------
\* werkzeug.utils.secure_filename
\* ------------------------------------------------------------------------
\* the ASCII characters among those the model uses; any other character is
\* dropped by encode("ascii", "ignore")
AsciiChars == Letters \cup Digits \cup {" ", "\n", "\t", ".", "_", "-", "/", ":", "!"}

IsAscii(c) == c \in AsciiChars

\* the characters the pattern [^A-Za-z0-9_.-] leaves in place
SafeChars == Letters \cup Digits \cup {"_", ".", "-"}

SafeChar(c) == c \in SafeChars

\* "_".join(s.split())
RECURSIVE JoinSplit(_)
JoinSplit(s) ==
    IF s = << >> THEN << >>
    ELSE IF Head(s) \in Whitespace THEN JoinSplit(Tail(s))
    ELSE IF Len(s) >= 2 /\ s[2] \in Whitespace
         THEN LET rest == JoinSplit(Tail(s))
              IN  IF rest = << >> THEN <<Head(s)>> ELSE <<Head(s), "_">> \o rest
         ELSE <<Head(s)>> \o JoinSplit(Tail(s))

\* s.strip("._")
StripDotUnderscore(s) ==
    LET keep == { i \in DOMAIN s : s[i] \notin {".", "_"} }
    IN  IF keep = {} THEN << >> ELSE SubSeq(s, MinOf(keep), MaxOf(keep))

secure_filename(filename) ==
    LET ascii    == SelectSeq(filename, IsAscii)
        nosep    == [i \in DOMAIN ascii |-> IF ascii[i] = "/" THEN " " ELSE ascii[i]]
        joined   == JoinSplit(nosep)
        stripped == SelectSeq(joined, SafeChar)
    IN  StripDotUnderscore(stripped)

\* ------------------------------------------------------------------------
\* analyze_book_content
\* ------------------------------------------------------------------------
LabelTitle == <<"t","i","t","l","e">>

LabelAuthor == <<"a","u","t","h","o","r">>

\* the character class [:\s]
ColonOrSpace == {":"} \cup Whitespace

LabelAtExactCase(label, text, i) ==
    /\ i + Len(label) - 1 <= Len(text)
    /\ \A k \in 1..Len(label) : text[i + k - 1] = label[k]

\* the label matches text at position i, ignoring case: (?i)title
LabelAt(label, text, i) ==
    /\ i + Len(label) - 1 <= Len(text)
    /\ \A k \in 1..Len(label) : LowerChar(text[i + k - 1]) = label[k]

\* Where group 1 starts when [:\s]+([^\n]+) is matched at position p, or 0
\* when it cannot be matched there.  [:\s]+ is greedy: it takes the whole run
\* of colons and white space; when the run reaches the end of the text it
\* gives characters back until one that is not a line break is left for
\* the group.
GroupStart(text, p) ==
    IF p > Len(text) \/ text[p] \notin ColonOrSpace THEN 0
    ELSE LET stop == { k \in p..Len(text) :
                         /\ text[k] \notin ColonOrSpace
                         /\ \A j \in p..(k - 1) : text[j] \in ColonOrSpace }
         IN  IF stop # {} THEN MinOf(stop)
             ELSE LET back == { g \in (p + 1)..Len(text) : text[g] # "\n" }
                  IN  IF back = {} THEN 0 ELSE MaxOf(back)

\* the greedy group [^\n]+ starting at g: up to the next line break or the
\* end of the text
GroupFrom(text, g) ==
    LET breaks == { k \in g..Len(text) :
                      /\ text[k] = "\n"
                      /\ \A j \in g..(k - 1) : text[j] # "\n" }
    IN  SubSeq(text, g, IF breaks = {} THEN Len(text) ELSE MinOf(breaks) - 1)

\* re.search(r'(?i)<label>[:\s]+([^\n]+)', text): the leftmost match
re_search(label, text) ==
    LET hits == { i \in 1..Len(text) :
                    /\ LabelAt(label, text, i)
                    /\ GroupStart(text, i + Len(label)) # 0 }
    IN  IF hits = {} THEN [matched |-> FALSE, group |-> << >>]
        ELSE [matched |-> TRUE,
              group   |-> GroupFrom(text, GroupStart(text, MinOf(hits) + Len(label)))]

Unknown == <<"U","n","k","n","o","w","n">>

\* lines 38-39 and 60-61: the value of metadata.title / metadata.author
ExtractLabel(label, content) ==
    LET m == re_search(label, Prefix(content, ScanWindow))
    IN  IF m.matched THEN Strip(m.group) ELSE Unknown

\* len(content.split())
WordCount(content) ==
    Cardinality({ i \in DOMAIN content :
                    /\ content[i] \notin Whitespace
                    /\ (i = 1 \/ content[i - 1] \in Whitespace) })

\* len(content.split('\n'))
LineCount(content) ==
    Cardinality({ i \in DOMAIN content : content[i] = "\n" }) + 1

ContentPreview(content) ==
    IF Len(content) > PreviewLen
    THEN SubSeq(content, 1, PreviewLen) \o <<".", ".", ".">>
    ELSE content

\* os.path.join(folder, name) and os.path.basename(path)
PathJoin(folder, name) == [folder |-> folder, name |-> name]

basename(path) == path.name

\* str(uuid.uuid4()): a token no earlier call returned; drawn is the number
\* of calls made so far
uuid4_repeating(drawn) == "u1"

uuid4(drawn) == "u" \o ToString(drawn + 1)

\* lines 68-72: the record returned when reading the file raised
FailedAnalysis_unmarked(message) ==
    [ error           |-> message,
      analysis_status |-> "completed" ]

FailedAnalysis(message) ==
    [ error           |-> message,
      analysis_status |-> "failed" ]

\* analyze_book_content(file_path, user_name, user_email).  files is the
\* upload folder, readable is whether open()/read() of the file succeeds,
\* drawn the number of uuid4() calls made before this one.
analyze_book_content(files, file_path, user_name, user_email, readable, drawn) ==
    IF readable /\ basename(file_path) \in DOMAIN files
    THEN LET content == files[basename(file_path)]
         IN  [ project_id      |-> uuid4(drawn),
               user_name       |-> user_name,
               user_email      |-> user_email,
               filename        |-> basename(file_path),
               statistics      |-> [ word_count      |-> WordCount(content),
                                     character_count |-> Len(content),
                                     line_count      |-> LineCount(content) ],
               metadata        |-> [ title  |-> ExtractLabel(LabelTitle, content),
                                     author |-> ExtractLabel(LabelAuthor, content) ],
               content_preview |-> ContentPreview(content),
               analysis_status |-> "completed" ]
    ELSE FailedAnalysis("read error")

\* ------------------------------------------------------------------------
\* Storage: a folder is a function from file names to file contents.  A raw
\* upload's content is its text; an analysis file's content is the sequence
\* of JSON documents completely written to it (none for a file that was
\* created but whose write failed).
\* ------------------------------------------------------------------------
UPLOAD_FOLDER == "/tmp/audible_uploads"

ANALYSIS_FOLDER == "/tmp/audible_analysis"

\* open(path, mode): mode 'w' creates the file or truncates it, mode 'r'
\* leaves the folder as it is
OpenFile_truncating(files, name, mode) ==
    (name :> << >>) @@ files

OpenFile(files, name, mode) ==
    IF mode = "w" THEN (name :> << >>) @@ files ELSE files

\* the file's content once data has been written and the file closed
WriteFile(files, name, data) == (name :> data) @@ files

\* os.path.exists
Exists(files, name) == name \in DOMAIN files

\* f"{project_id}_{filename}"
UploadName_without_id(project_id, filename) == filename

UploadName(project_id, filename) == <<project_id, "_">> \o filename

\* f"{project_id}_analysis.json"
AnalysisName_without_id(project_id) == <<"", "_analysis.json">>

AnalysisName(project_id) == <<project_id, "_analysis.json">>

\* line 105: analysis_results['project_id'] = project_id
SetProjectId_keeping(analysis_results, project_id) ==
    analysis_results

SetProjectId(analysis_results, project_id) ==
    [ k \in DOMAIN analysis_results \cup {"project_id"} |->
        IF k = "project_id" THEN project_id ELSE analysis_results[k] ]

\* ------------------------------------------------------------------------
\* State
\* ------------------------------------------------------------------------
VARIABLES
    uploadStore,    \* the files of UPLOAD_FOLDER
    analysisStore,  \* the files of ANALYSIS_FOLDER
    drawn,          \* number of uuid4() calls made so far
    request,        \* the request handled last
    response,       \* the response given to it
    uploads,        \* history: one entry per upload that passed validation
    lastJson,       \* history: the last JSON view since the last upload request
    analyzerOut     \* what analyze_book_content returned last

vars == <<uploadStore, analysisStore, drawn, request, response, uploads,
          lastJson, analyzerOut>>

NoRequest == [op |-> "none"]

NoResponse == [status |-> 0, kind |-> "none", body |-> [none |-> TRUE]]

NoJson == [project_id |-> "", response |-> NoResponse]

NoAnalysis == [analysis_status |-> "none"]

Json(status, body) == [status |-> status, kind |-> "json", body |-> body]

Text(status, text) == [status |-> status, kind |-> "text", body |-> [text |-> text]]

\* redirect(url_for('audible.analyze', project_id=project_id))
Redirect(project_id) ==
    [status |-> 302, kind |-> "redirect",
     body |-> [endpoint |-> "audible.analyze", project_id |-> project_id]]

\* render_template('analyze.html', analysis=analysis_data)
Page(analysis_data) ==
    [status |-> 200, kind |-> "page",
     body |-> [template |-> "analyze.html", analysis |-> analysis_data]]

Init ==
    /\ uploadStore = << >>
    /\ analysisStore = << >>
    /\ drawn = 0
    /\ request = NoRequest
    /\ response = NoResponse
    /\ uploads = << >>
    /\ lastJson = NoJson
    /\ analyzerOut = NoAnalysis

\* ------------------------------------------------------------------------
\* Requests
\* ------------------------------------------------------------------------
RejectedNames ==
    { <<>>,
      <<"b">>,
      <<"t","x","t">>,
      <<"b",".">>,
      <<"b",".","e","x","e">>,
      <<"b",".","t","x">>,
      <<"B",".","T","X","T",".","e","x","e">>,
      <<".","e","p","u","b","3">> }

\* POST /upload: has_file is 'bookFile' in request.files
UploadRequests ==
    { [op |-> "upload_file", has_file |-> FALSE, filename |-> << >>,
       content |-> << >>, fullName |-> "", email |-> ""] }
    \cup
    { [op |-> "upload_file", has_file |-> TRUE, filename |-> f,
       content |-> <<"a"," ","b">>, fullName |-> "", email |-> ""] : f \in RejectedNames }
    \cup
    { [op |-> "upload_file", has_file |-> TRUE,
       filename |-> <<"M","y"," ","B","o","o","k",".","T","X","T">>,
       content |-> <<"T","i","t","l","e",":"," ","F","o","o","\n","x"," ","y">>,
       fullName |-> "Ann", email |-> "ann@example.org"],
      [op |-> "upload_file", has_file |-> TRUE,
       filename |-> <<".",".","/","a","/",".","b",".","a","z","w","3">>,
       content |-> <<"a"," ","b">>,
       fullName |-> "Bob", email |-> ""] }

\* every identifier uuid4() can return within the bound, and one it cannot
ProjectIds == { uuid4(n) : n \in 0..(MaxUuid - 1) } \cup { "unknown" }

\* What the environment does to the file operations of one upload: save is
\* the outcome of file.save and dump that of writing the analysis file
\* (written, open() raised, or the file was created and the write raised);
\* readable is whether the analyzer can read the stored file.
WriteOutcomes == {"ok", "error", "partial"}

Environments ==
    { [save |-> sv, readable |-> FALSE, dump |-> "error"] : sv \in {"error", "partial"} }
    \cup
    { [save |-> "ok", readable |-> r, dump |-> d] : r \in BOOLEAN, d \in WriteOutcomes }

\* the environment in which every file operation succeeds
Calm == [save |-> "ok", readable |-> TRUE, dump |-> "ok"]

\* the environments to consider for a request: a request that fails
\* validation performs no file operation, so one environment stands for all
EnvironmentsOf(req) ==
    IF req.has_file /\ req.filename # << >> /\ allowed_file(req.filename)
    THEN Environments
    ELSE { Calm }

\* ------------------------------------------------------------------------
\* POST /upload
\* ------------------------------------------------------------------------
\* The state after upload_file has handled req in environment env.
UploadResult(req, env) ==
    LET save     == env.save
        readable == env.readable
        dump     == env.dump
        same == [ uploadStore   |-> uploadStore,
                  analysisStore |-> analysisStore,
                  drawn         |-> drawn,
                  entry         |-> << >>,
                  analyzerOut   |-> analyzerOut ]
    IN
    IF ~req.has_file
    THEN same @@ [response |-> Json(400, [error |-> "No file selected"])]
    ELSE IF req.filename = << >>
    THEN same @@ [response |-> Json(400, [error |-> "No file selected"])]
    ELSE IF ~allowed_file(req.filename)
    THEN same @@ [response |-> Json(400, [error |-> "Invalid file type"])]
    ELSE
    LET project_id    == uuid4(drawn)
        filename      == secure_filename(req.filename)
        file_path     == PathJoin(UPLOAD_FOLDER, UploadName(project_id, filename))
        opened        == OpenFile(uploadStore, basename(file_path), "w")
        saved         == WriteFile(opened, basename(file_path), req.content)
        analysis      == analyze_book_content(saved, file_path, req.fullName,
                                              req.email, readable, drawn + 1)
        drawnAfter    == IF analysis.analysis_status = "completed"
                         THEN drawn + 2 ELSE drawn + 1
        results       == SetProjectId(analysis, project_id)
        analysis_file == PathJoin(ANALYSIS_FOLDER, AnalysisName(project_id))
        created       == OpenFile(analysisStore, basename(analysis_file), "w")
        dumped        == WriteFile(created, basename(analysis_file), <<results>>)
        entry         == [ project_id |-> project_id, filename |-> req.filename,
                           save |-> save, readable |-> readable, dump |-> dump,
                           analyzer_id |-> "" ]
    IN
    IF save # "ok"
    THEN [ uploadStore   |-> IF save = "partial" THEN opened ELSE uploadStore,
           analysisStore |-> analysisStore,
           drawn         |-> drawn + 1,
           entry         |-> <<entry>>,
           analyzerOut   |-> analyzerOut,
           response      |-> Json(500, [error |-> "save error"]) ]
    ELSE
    [ uploadStore   |-> saved,
      analysisStore |-> CASE dump = "ok"      -> dumped
                          [] dump = "partial" -> created
                          [] OTHER            -> analysisStore,
      drawn         |-> drawnAfter,
      entry         |-> << [entry EXCEPT
                              !.analyzer_id = IF "project_id" \in DOMAIN analysis
                                              THEN analysis.project_id ELSE ""] >>,
      analyzerOut   |-> analysis,
      response      |-> IF dump = "ok" THEN Redirect(project_id)
                        ELSE Json(500, [error |-> "write error"]) ]

upload_file(req, env) ==
    /\ allowed_file(req.filename) => drawn + 2 <= MaxUuid
    /\ \E r \in { UploadResult(req, env) } :
           /\ uploadStore' = r.uploadStore
           /\ analysisStore' = r.analysisStore
           /\ drawn' = r.drawn
           /\ uploads' = uploads \o [i \in DOMAIN r.entry |->
                                     r.entry[i] @@ [status |-> r.response.status]]
           /\ analyzerOut' = r.analyzerOut
           /\ response' = r.response
    /\ request' = req
    /\ lastJson' = NoJson

\* ------------------------------------------------------------------------
\* GET /analyze/<project_id> and GET /api/analysis/<project_id>
\* ------------------------------------------------------------------------
\* json.load: the document of a completely written file; an empty file
\* raises
JsonLoads(data) == data # << >>

\* the response of analyze for the files of the analysis folder
AnalyzeResponse(files, project_id) ==
    LET analysis_file == PathJoin(ANALYSIS_FOLDER, AnalysisName(project_id))
        name          == basename(analysis_file)
    IN  IF ~Exists(files, name) THEN Text(404, "Analysis not found")
        ELSE IF ~JsonLoads(files[name]) THEN Text(500, "Error loading analysis")
        ELSE Page(files[name][1])

analyze(project_id) ==
    LET analysis_file == PathJoin(ANALYSIS_FOLDER, AnalysisName(project_id))
        name          == basename(analysis_file)
    IN  /\ request' = [op |-> "analyze", project_id |-> project_id]
        /\ response' = AnalyzeResponse(analysisStore, project_id)
        /\ analysisStore' = IF Exists(analysisStore, name)
                            THEN OpenFile(analysisStore, name, "r")
                            ELSE analysisStore
        /\ UNCHANGED <<uploadStore, drawn, uploads, lastJson, analyzerOut>>

GetAnalysisDataResponse_unchecked(files, project_id) ==
    LET name == AnalysisName(project_id)
    IN  IF ~Exists(files, name) \/ ~JsonLoads(files[name])
        THEN Json(500, [error |-> "load error"])
        ELSE Json(200, files[name][1])

\* the response of get_analysis_data for the files of the analysis folder
GetAnalysisDataResponse(files, project_id) ==
    LET analysis_file == PathJoin(ANALYSIS_FOLDER, AnalysisName(project_id))
        name          == basename(analysis_file)
    IN  IF ~Exists(files, name) THEN Json(404, [error |-> "Analysis not found"])
        ELSE IF ~JsonLoads(files[name]) THEN Json(500, [error |-> "load error"])
        ELSE Json(200, files[name][1])

get_analysis_data(project_id) ==
    LET analysis_file == PathJoin(ANALYSIS_FOLDER, AnalysisName(project_id))
        name          == basename(analysis_file)
    IN  /\ request' = [op |-> "get_analysis_data", project_id |-> project_id]
        /\ response' = GetAnalysisDataResponse(analysisStore, project_id)
        /\ analysisStore' = IF Exists(analysisStore, name)
                            THEN OpenFile(analysisStore, name, "r")
                            ELSE analysisStore
        /\ lastJson' = [project_id |-> project_id, response |-> response']
        /\ UNCHANGED <<uploadStore, drawn, uploads, analyzerOut>>

Next ==
    \/ \E req \in UploadRequests :
         \E env \in EnvironmentsOf(req) : upload_file(req, env)
    \/ \E project_id \in ProjectIds : analyze(project_id)
    \/ \E project_id \in ProjectIds : get_analysis_data(project_id)

Spec == Init /\ [][Next]_vars

\* ------------------------------------------------------------------------
\* Metadata extraction on its own: one upload of a text built from the
\* fragments below, or of such a text behind padding that brings it to the
\* edge of the scanned window, in an environment where every file operation
\* succeeds.
\* ------------------------------------------------------------------------
Fragments ==
    { <<"T","i","t","l","e",":"," ","F","o","o">>,
      <<"t","i","t","l","e">>,
      <<"S","u","b">>,
      <<":"," ">>,
      <<"\n">>,
      <<" ">>,
      <<"B","a","r">>,
      <<"T","I","T","L","E",":">>,
      <<"A","u","t","h","o","r",":"," ","A","l">> }

RECURSIVE Concat(_)
Concat(parts) ==
    IF parts = << >> THEN << >> ELSE Head(parts) \o Concat(Tail(parts))

FragmentTexts(n) ==
    { Concat(parts) : parts \in UNION { [1..k -> Fragments] : k \in 0..n } }

PadLengths ==
    { ScanWindow - 10, ScanWindow - 8, ScanWindow - 7, ScanWindow - 4, ScanWindow }

Padding(n) == [i \in 1..n |-> "x"]

Texts ==
    FragmentTexts(MaxFragments)
    \cup { Padding(n) \o t : n \in PadLengths, t \in FragmentTexts(MaxPaddedFragments) }

TextRequest(content) ==
    [op |-> "upload_file", has_file |-> TRUE, filename |-> <<"b",".","t","x","t">>,
     content |-> content, fullName |-> "Ann", email |-> "ann@example.org"]

AnalyzeText ==
    /\ uploads = << >>
    /\ \E content \in Texts :
         upload_file(TextRequest(content), Calm)

NextMeta == AnalyzeText

SpecMeta == Init /\ [][NextMeta]_vars

\* ------------------------------------------------------------------------
\* Properties
\* ------------------------------------------------------------------------
\* the record persisted for project_id, where one was completely written
HasRecord(project_id) ==
    /\ Exists(analysisStore, AnalysisName(project_id))
    /\ analysisStore[AnalysisName(project_id)] # << >>

RecordOf(project_id) == analysisStore[AnalysisName(project_id)][1]

\* the last request was an upload that was answered with the redirect and
\* whose analysis completed
UploadCompleted ==
    /\ request.op = "upload_file"
    /\ response.status = 302
    /\ HasRecord(response.body.project_id)
    /\ RecordOf(response.body.project_id).analysis_status = "completed"

TitleLabelLine == <<"T","i","t","l","e",":"," ">>

AuthorLabelLine == <<"A","u","t","h","o","r",":"," ">>

\* the rest of the line of text that starts at position p
RestOfLine(text, p) ==
    LET brk == { k \in p..Len(text) : text[k] = "\n" }
    IN  SubSeq(text, p, IF brk = {} THEN Len(text) ELSE MinOf(brk) - 1)

\* a value such as "Foo": not empty, not starting with a colon or white
\* space, not ending with white space
PlainValue(v) ==
    /\ v # << >>
    /\ v[1] \notin ColonOrSpace
    /\ v[Len(v)] \notin Whitespace

\* text contains the line "<labelLine>value" at position i, the whole of it
\* within the first ScanWindow characters
LabelLineAt(labelLine, text, i, value) ==
    /\ i + Len(labelLine) - 1 <= Len(text)
    /\ SubSeq(text, i, i + Len(labelLine) - 1) = labelLine
    /\ value = RestOfLine(text, i + Len(labelLine))
    /\ PlainValue(value)
    /\ i + Len(labelLine) + Len(value) - 1 <= ScanWindow

\* The statement of C7 as written, for one label: a text containing
\* "Title: Foo" within the first 2000 characters gets "Foo", whatever
\* precedes or surrounds that line, and a text without such a line gets
\* "Unknown".
LabelRuleAsClaimed(labelLine, text, extracted) ==
    /\ \A i \in 1..Len(text) :
         LET value == RestOfLine(text, i + Len(labelLine))
         IN  LabelLineAt(labelLine, text, i, value) => extracted = value
    /\ (~ \E i \in 1..Len(text) :
            LabelLineAt(labelLine, text, i, RestOfLine(text, i + Len(labelLine))))
         => extracted = Unknown

\* C7 (as claimed; refuted): for every uploaded text whose analysis
\* completed, metadata.title is "Foo" when the text contains "Title: Foo"
\* within its first 2000 characters and "Unknown" when it contains no such
\* line, and likewise metadata.author for "Author:".
CexC7 ==
    UploadCompleted =>
        LET rec == RecordOf(response.body.project_id)
        IN  /\ LabelRuleAsClaimed(TitleLabelLine, request.content, rec.metadata.title)
            /\ LabelRuleAsClaimed(AuthorLabelLine, request.content, rec.metadata.author)

\* the positions in the first ScanWindow characters of text where the label
\* occurs, in any case, followed by a colon or white space
LabelOccurrences(label, text) ==
    LET window == Prefix(text, ScanWindow)
    IN  { i \in 1..(Len(window) - Len(label)) :
            /\ Lower(SubSeq(window, i, i + Len(label) - 1)) = label
            /\ window[i + Len(label)] \in ColonOrSpace }

\* The amended rule for one label: the first occurrence decides.
LabelRuleAmended(label, labelLine, text, extracted) ==
    LET occ == LabelOccurrences(label, text)
    IN  /\ occ = {} => extracted = Unknown
        /\ occ # {} =>
             LET i     == MinOf(occ)
                 value == RestOfLine(text, i + Len(labelLine))
             IN  LabelLineAt(labelLine, text, i, value) => extracted = value

\* C7 (amended): for every uploaded text whose analysis completed, if the
\* first occurrence of "title" (in any case) followed by a colon or white
\* space within the first 2000 characters is the label of a line
\* "Title: Foo" that lies wholly within those 2000 characters, then
\* metadata.title is "Foo"; if there is no such occurrence at all,
\* metadata.title is "Unknown"; likewise metadata.author for "Author:".
ThmC7 ==
    UploadCompleted =>
        LET rec == RecordOf(response.body.project_id)
        IN  /\ LabelRuleAmended(LabelTitle, TitleLabelLine, request.content,
                                rec.metadata.title)
            /\ LabelRuleAmended(LabelAuthor, AuthorLabelLine, request.content,
                                rec.metadata.author)

\* a text with a "Title:" line after the first occurrence of the label was
\* analysed, and the title is the value of the line at the first occurrence
WitC7 ==
    /\ UploadCompleted
    /\ LabelOccurrences(LabelTitle, request.content) # {}
    /\ \E i \in 1..Len(request.content) :
          /\ i > MinOf(LabelOccurrences(LabelTitle, request.content))
          /\ LabelLineAt(TitleLabelLine, request.content, i,
                         RestOfLine(request.content, i + Len(TitleLabelLine)))
    /\ LabelLineAt(TitleLabelLine, request.content,
                   MinOf(LabelOccurrences(LabelTitle, request.content)),
                   RecordOf(response.body.project_id).metadata.title)

\* ------------------------------------------------------------------------
\* Workflow properties
\* ------------------------------------------------------------------------
Retrievals == {"analyze", "get_analysis_data"}

\* the identifiers given to the uploads that passed validation
IssuedIds == { uploads[i].project_id : i \in DOMAIN uploads }

\* the documents completely written to the analysis folder
Records == { analysisStore[name][1] :
               name \in { n \in DOMAIN analysisStore : analysisStore[n] # << >> } }

\* C1: no two accepted uploads are given the same project_id, and every
\* project_id that upload_file redirected to has a persisted analysis record
\* that neither GET /analyze/<project_id> nor GET /api/analysis/<project_id>
\* answers with 404.
ThmC1 ==
    /\ \A i, j \in DOMAIN uploads :
         i # j => uploads[i].project_id # uploads[j].project_id
    /\ \A i \in DOMAIN uploads :
         uploads[i].status = 302 =>
            /\ <<uploads[i].project_id, "_analysis.json">> \in DOMAIN analysisStore
            /\ analysisStore[<<uploads[i].project_id, "_analysis.json">>] # << >>
            /\ AnalyzeResponse(analysisStore, uploads[i].project_id).status # 404
            /\ GetAnalysisDataResponse(analysisStore, uploads[i].project_id).status # 404

\* two uploads were redirected, and the JSON view of one of them was
\* requested and answered with its record
WitC1 ==
    /\ \E i, j \in DOMAIN uploads :
         /\ i # j
         /\ uploads[i].status = 302
         /\ uploads[j].status = 302
         /\ request = [op |-> "get_analysis_data", project_id |-> uploads[i].project_id]
    /\ response.status = 200

\* the name has a last dot, and what follows it is, in lower case, one of
\* the six allowed extensions
HasAllowedExtension(name) ==
    \E i \in DOMAIN name :
        /\ name[i] = "."
        /\ \A j \in (i + 1)..Len(name) : name[j] # "."
        /\ Lower(SubSeq(name, i + 1, Len(name))) \in
              { <<"t","x","t">>, <<"p","d","f">>, <<"e","p","u","b">>,
                <<"m","o","b","i">>, <<"a","z","w">>, <<"a","z","w","3">> }

Rejectable(req) ==
    \/ ~req.has_file
    \/ req.filename = << >>
    \/ ~HasAllowedExtension(req.filename)

\* C2: every step that handles an upload request with no file, an empty
\* file name or an extension outside the allowed set answers 400 and leaves
\* the upload folder and the analysis folder as they were.
ThmC2 ==
    [][ (request'.op = "upload_file" /\ Rejectable(request')) =>
           /\ response'.status = 400
           /\ uploadStore' = uploadStore
           /\ analysisStore' = analysisStore ]_vars

\* after an accepted upload left its files, an upload of a name with a dot
\* and a disallowed extension was answered 400
WitC2 ==
    /\ request.op = "upload_file"
    /\ request.has_file
    /\ "." \in Range(request.filename)
    /\ ~HasAllowedExtension(request.filename)
    /\ response.status = 400
    /\ DOMAIN uploadStore # {}
    /\ DOMAIN analysisStore # {}

\* C3: an accepted upload whose stored file the analyzer could not read
\* (and whose own two file writes succeeded) was answered with the redirect
\* to its analysis page, and the record persisted for its project_id has
\* analysis_status "failed" and an error field, and neither statistics nor
\* metadata.
ThmC3 ==
    \A i \in DOMAIN uploads :
        (uploads[i].save = "ok" /\ ~uploads[i].readable /\ uploads[i].dump = "ok") =>
            /\ uploads[i].status = 302
            /\ HasRecord(uploads[i].project_id)
            /\ LET rec == RecordOf(uploads[i].project_id)
               IN  /\ rec.analysis_status = "failed"
                   /\ "error" \in DOMAIN rec
                   /\ "statistics" \notin DOMAIN rec
                   /\ "metadata" \notin DOMAIN rec

\* the upload handled last could not be analysed and was redirected
WitC3 ==
    /\ request.op = "upload_file"
    /\ response.kind = "redirect"
    /\ uploads # << >>
    /\ ~uploads[Len(uploads)].readable
    /\ response.body.project_id = uploads[Len(uploads)].project_id
    /\ analyzerOut.analysis_status = "failed"

\* C4: no step rewrites or removes a file of the analysis folder, and every
\* record in it has analysis_status "completed" or "failed".
ThmC4 ==
    [][ /\ \A name \in DOMAIN analysisStore :
             /\ name \in DOMAIN analysisStore'
             /\ analysisStore'[name] = analysisStore[name]
        /\ \A name \in DOMAIN analysisStore' :
             \A k \in DOMAIN analysisStore'[name] :
                 analysisStore'[name][k].analysis_status \in {"completed", "failed"}
      ]_vars

\* a completed and a failed record are persisted, and a retrieval was
\* handled after them
WitC4 ==
    /\ \E r \in Records : r.analysis_status = "completed"
    /\ \E r \in Records : r.analysis_status = "failed"
    /\ request.op \in Retrievals
    /\ response.status = 200

\* C5: a step that handles a page view or a JSON view leaves both folders
\* as they were, and a JSON view of the identifier of the last JSON view,
\* with no upload request in between, gets the response that one got.
ThmC5 ==
    [][ /\ request'.op \in Retrievals =>
             /\ uploadStore' = uploadStore
             /\ analysisStore' = analysisStore
        /\ (request'.op = "get_analysis_data"
              /\ lastJson.project_id = request'.project_id) =>
             response' = lastJson.response
      ]_vars

\* a record was served by the JSON view and then by the page view
WitC5 ==
    /\ request.op = "analyze"
    /\ response.status = 200
    /\ lastJson.project_id = request.project_id
    /\ lastJson.response.status = 200

\* C6: a page view or JSON view of an identifier that no accepted upload was
\* given is answered 404 (plain text, respectively a JSON error), and a
\* view is answered 404 only when the analysis folder has no file for the
\* identifier.
ThmC6 ==
    request.op \in Retrievals =>
        /\ request.project_id \notin IssuedIds =>
              /\ response.status = 404
              /\ request.op = "analyze" => response.kind = "text"
              /\ request.op = "get_analysis_data" =>
                    (response.kind = "json" /\ DOMAIN response.body = {"error"})
        /\ response.status = 404 =>
              <<request.project_id, "_analysis.json">> \notin DOMAIN analysisStore

\* the identifier the analyzer generated for a persisted record was
\* requested through the JSON view and not found
WitC6 ==
    /\ request.op = "get_analysis_data"
    /\ response.status = 404
    /\ \E i \in DOMAIN uploads :
          /\ uploads[i].status = 302
          /\ uploads[i].analyzer_id = request.project_id

\* C8 (as claimed; refuted by the code): the filename field of every
\* completed record is the sanitized name of the uploaded file alone.
CexC8 ==
    \A i \in DOMAIN uploads :
        (HasRecord(uploads[i].project_id)
           /\ RecordOf(uploads[i].project_id).analysis_status = "completed") =>
            RecordOf(uploads[i].project_id).filename = secure_filename(uploads[i].filename)

\* C9: every accepted upload that has a file in the analysis folder has its
\* raw upload in the upload folder under <project_id>_<sanitized-filename>,
\* and every file of the analysis folder belongs to an accepted upload.
ThmC9 ==
    /\ \A i \in DOMAIN uploads :
          <<uploads[i].project_id, "_analysis.json">> \in DOMAIN analysisStore =>
             (<<uploads[i].project_id, "_">> \o secure_filename(uploads[i].filename))
                \in DOMAIN uploadStore
    /\ \A name \in DOMAIN analysisStore :
          \E i \in DOMAIN uploads : name = <<uploads[i].project_id, "_analysis.json">>

\* one upload has its record and its raw upload, and another, answered 500
\* after its raw file was saved, left a raw upload without a record
WitC9 ==
    \E i, j \in DOMAIN uploads :
        /\ uploads[i].status = 302
        /\ HasRecord(uploads[i].project_id)
        /\ (<<uploads[i].project_id, "_">> \o secure_filename(uploads[i].filename))
              \in DOMAIN uploadStore
        /\ uploads[j].status = 500
        /\ uploads[j].save = "ok"
        /\ (<<uploads[j].project_id, "_">> \o secure_filename(uploads[j].filename))
              \in DOMAIN uploadStore
        /\ <<uploads[j].project_id, "_analysis.json">> \notin DOMAIN analysisStore

\* C10: the record in the file <id>_analysis.json carries project_id = id,
\* whether completed or failed, and no persisted record carries an
\* identifier the analyzer generated.
ThmC10 ==
    /\ \A name \in DOMAIN analysisStore :
          \A k \in DOMAIN analysisStore[name] :
              /\ "project_id" \in DOMAIN analysisStore[name][k]
              /\ name = <<analysisStore[name][k].project_id, "_analysis.json">>
    /\ \A i \in DOMAIN uploads :
          uploads[i].analyzer_id # "" =>
             /\ uploads[i].analyzer_id # uploads[i].project_id
             /\ \A r \in Records :
                   "project_id" \in DOMAIN r => r.project_id # uploads[i].analyzer_id

\* a failed record and a completed record are persisted, the completed one
\* from an analysis that had generated an identifier of its own
WitC10 ==
    /\ \E r \in Records : r.analysis_status = "failed" /\ r.project_id \in IssuedIds
    /\ \E i \in DOMAIN uploads :
          /\ uploads[i].analyzer_id # ""
          /\ HasRecord(uploads[i].project_id)
          /\ RecordOf(uploads[i].project_id).analysis_status = "completed"
          /\ RecordOf(uploads[i].project_id).project_id = uploads[i].project_id

====
